---- MODULE Spec2Model ----
\* Model of scheduler/task.go: the task state machine, its spin loop and wait
\* operations (goroutines), and the taskCollection registry.
\*
\* Goroutines are modelled with a program counter each.  Channel operations
\* follow Go's semantics: a select that finds a ready case takes one of the
\* ready cases; a select that finds none parks, and is resolved atomically by
\* the counterpart operation (a close of the kill channel, or the other side
\* of the unbuffered schResponseChan arriving at its own select).
EXTENDS Integers, Sequences, FiniteSets, Bags

\* ---------------------------------------------------------------- bounds
MaxRuns == 2          \* effective Starts, with Stop and Kill
MaxFires == 2         \* Active responses of the schedule, with Stop and Kill
MaxRunFires == 4      \* Active responses of the schedule, without them
MaxRegRuns == 1       \* effective Starts, next to the registry
MaxMissed == 1        \* largest missed count of one Active response
MaxThreshold == 2     \* largest stop-on-failure threshold explored
MaxTasks == 2         \* tasks constructed by newTask, next to a running task
MaxIds == 4           \* tasks constructed by newTask, registry alone

\* ------------------------------------------------------------- constants
ZeroTime == 0         \* time.Time{}
NilChan == 0          \* the nil killChan of a task never started

VARIABLES
    state,            \* t.state of the task under study (task 1)
    killChan,         \* t.killChan: the channel the field currently holds
    closed,           \* the kill channels that have been closed
    mu,               \* holder of the task's sync.Mutex: "free", "Kill", "fire"
    lastFireTime, hitCount, missedIntervals,
    failedRuns, lastFailureTime, stopOnFailure,
    loops,            \* the spin() goroutines, in launch order
    waiters,          \* the waitForSchedule() goroutines that have not
                      \* returned: a bag, goroutines in the same position
                      \* being interchangeable
    killpc,           \* position of the Kill call holding the lock
    panicked,         \* a close of a closed channel has panicked
    clock,            \* last value returned by time.Now()
    env,              \* what the task's surroundings will do: the effective
                      \* Starts its callers make, the Active responses its
                      \* schedule has, the missed counts the schedule
                      \* reports, the tasks its callers construct
    sched,            \* schedule collaborator: count and missed sum of the
                      \* Active responses handed out
    wfStarts,         \* workflow collaborator: number of Start calls
    streak,           \* workflow collaborator: trailing failed Start calls
    emitted,          \* event collaborator: task ids of the events emitted
    idCounter,        \* the package-level id counter
    ids,              \* ids[r]: the id newTask gave the r-th task
    table,            \* taskCollection.table: id -> task (0: absent)
    rmpc,             \* task a remove call is about to delete, or 0
    ret               \* the error the last registry call returned

taskVars == <<state, killChan, closed, mu, lastFireTime, hitCount,
              missedIntervals, failedRuns, lastFailureTime, stopOnFailure,
              loops, waiters, killpc, panicked, clock, env, sched,
              wfStarts, streak, emitted>>
regVars == <<idCounter, ids, table, rmpc, ret>>
vars == <<taskVars, regVars>>

\* ------------------------------------------------------------ helpers
Thresholds == 0 .. MaxThreshold
DefaultStopOnFailure == 3

Responses ==
    [st : {"Active"}, missed : env.missed]
        \cup [st : {"Ended", "Error"}, missed : {0}]

NoResp == [st |-> "none", missed |-> 0]

NewLoop == [pc |-> "spawn", cf |-> 0, kc |-> NilChan, sr |-> NoResp, exit |-> ""]
DoneLoop(why) == [pc |-> "done", cf |-> 0, kc |-> NilChan, sr |-> NoResp, exit |-> why]
NewWaiter(i) == [pc |-> "start", kc |-> NilChan, sr |-> NoResp, run |-> i]

LoopIds == 1 .. Len(loops)
WaiterIds == BagToSet(waiters)
ParkedLoops == {j \in LoopIds : loops[j].pc = "parked"}
ParkedWaiters == {w \in WaiterIds : w.pc = "parked"}

\* close(c) wakes every goroutine parked in a select that has <-c as a case.
WakeLoops(c) ==
    [j \in LoopIds |->
        IF loops[j].pc = "parked" /\ loops[j].kc = c
        THEN [loops[j] EXCEPT !.pc = "k276"] ELSE loops[j]]
WakeWaiters(c) ==
    [w \in {x \in WaiterIds : ~(x.pc = "parked" /\ x.kc = c)} |-> waiters[w]]

\* The wait operations left when goroutine w has returned, and when it has
\* moved on to position v.
Exit(w) == waiters (-) SetToBag({w})
Move(w, v) == Exit(w) (+) SetToBag({v})

\* The task state of the r-th task: only task 1 is ever started.
StateOf(r) == IF r = 1 THEN state ELSE "Stopped"

\* ------------------------------------------------------------ Init
\* newTask for task 1, with an option setting the threshold to one of ks, and
\* newTaskCollection; the surroundings are those of e.
InitWith(e, ks) ==
    /\ state = "Stopped"
    /\ killChan = NilChan
    /\ closed = {}
    /\ mu = "free"
    /\ lastFireTime = ZeroTime
    /\ hitCount = 0
    /\ missedIntervals = 0
    /\ failedRuns = 0
    /\ lastFailureTime = ZeroTime
    /\ stopOnFailure \in ks
    /\ loops = <<>>
    /\ waiters = EmptyBag
    /\ killpc = "idle"
    /\ panicked = FALSE
    /\ clock = 0
    /\ env = e
    /\ sched = [active |-> 0, missed |-> 0]
    /\ wfStarts = 0
    /\ streak = 0
    /\ emitted = <<>>
    /\ idCounter = 1
    /\ ids = <<1>>
    /\ table = [i \in 1 .. e.tasks |-> 0]
    /\ rmpc = 0
    /\ ret = "none"

Init ==
    InitWith([starts |-> MaxRuns, ticks |-> MaxFires, missed |-> {0},
              tasks |-> 1], {1})

\* ------------------------------------------------------------ task API
\* A Start that also takes effect on a task that is already Spinning.
StartableOrSpinning == state \in {"Stopped", "Spinning"}

\* line 174: the test that lets Spin take effect.
Startable == state = "Stopped"

\* task.Spin: the whole body runs under the task lock.
Spin ==
    /\ ~panicked /\ mu = "free"
    /\ Startable => Len(loops) < env.starts
    /\ IF Startable
       THEN /\ state' = "Spinning"
            /\ killChan' = Len(loops) + 1          \* make(chan struct{})
            /\ loops' = Append(loops, NewLoop)     \* go t.spin()
       ELSE UNCHANGED <<state, killChan, loops>>
    /\ UNCHANGED <<closed, mu, lastFireTime, hitCount, missedIntervals,
                   failedRuns, lastFailureTime, stopOnFailure, waiters,
                   killpc, panicked, clock, sched, wfStarts, streak,
                   emitted, env, regVars>>

\* close(t.killChan): panics when the channel is already closed.
CloseKill ==
    IF killChan \in closed
    THEN /\ panicked' = TRUE
         /\ UNCHANGED <<closed, loops, waiters>>
    ELSE /\ closed' = closed \cup {killChan}
         /\ loops' = WakeLoops(killChan)
         /\ waiters' = WakeWaiters(killChan)
         /\ UNCHANGED panicked

\* task.Stop: the whole body runs under the task lock.
Stop ==
    /\ ~panicked /\ mu = "free"
    /\ IF state \in {"Firing", "Spinning"}
       THEN CloseKill
       ELSE UNCHANGED <<closed, loops, waiters, panicked>>
    /\ UNCHANGED <<state, killChan, mu, lastFireTime, hitCount,
                   missedIntervals, failedRuns, lastFailureTime,
                   stopOnFailure, killpc, clock, sched, wfStarts, streak,
                   emitted, env, regVars>>

\* task.Kill, lines 191-194: Lock, the state test and close(t.killChan).
KillClose ==
    /\ ~panicked /\ mu = "free"
    /\ IF state \in {"Firing", "Spinning"}
       THEN /\ CloseKill
            /\ IF killChan \in closed
               THEN UNCHANGED <<mu, killpc>>
               ELSE mu' = "Kill" /\ killpc' = "closed"
       ELSE UNCHANGED <<closed, loops, waiters, panicked, mu, killpc>>
    /\ UNCHANGED <<state, killChan, lastFireTime, hitCount, missedIntervals,
                   failedRuns, lastFailureTime, stopOnFailure, clock, sched,
                   wfStarts, streak, emitted, env, regVars>>

\* task.Kill, line 195: t.state = core.TaskDisabled.
KillWrite ==
    /\ ~panicked /\ mu = "Kill" /\ killpc = "closed"
    /\ state' = "Disabled"
    /\ killpc' = "ret"
    /\ UNCHANGED <<killChan, closed, mu, lastFireTime, hitCount,
                   missedIntervals, failedRuns, lastFailureTime,
                   stopOnFailure, loops, waiters, panicked, clock, sched,
                   wfStarts, streak, emitted, env, regVars>>

\* task.Kill, line 197: the deferred Unlock; Kill returns.
KillReturn ==
    /\ ~panicked /\ mu = "Kill" /\ killpc = "ret"
    /\ mu' = "free"
    /\ killpc' = "idle"
    /\ UNCHANGED <<state, killChan, closed, lastFireTime, hitCount,
                   missedIntervals, failedRuns, lastFailureTime,
                   stopOnFailure, loops, waiters, panicked, clock, sched,
                   wfStarts, streak, emitted, env, regVars>>

\* task.SetStopOnFailure: an unsynchronized write of the threshold.
SetStopOnFailure(v) ==
    /\ ~panicked
    /\ v # stopOnFailure
    /\ stopOnFailure' = v
    /\ UNCHANGED <<state, killChan, closed, mu, lastFireTime, hitCount,
                   missedIntervals, failedRuns, lastFailureTime, loops,
                   waiters, killpc, panicked, clock, sched, wfStarts, streak,
                   emitted, env, regVars>>

\* ------------------------------------------------------------ spin loop
\* What the switch on sr.State() does with a response (lines 218-273).
Dispatch(r) ==
    CASE r.st = "Active" -> "active"
      [] r.st = "Ended" -> "ended"
      [] r.st = "Error" -> "error"

\* line 212: go t.waitForSchedule()
LoopSpawn(i) ==
    /\ ~panicked /\ loops[i].pc = "spawn"
    /\ waiters' = waiters (+) SetToBag({NewWaiter(i)})
    /\ loops' = [loops EXCEPT ![i].pc = "select"]
    /\ UNCHANGED <<state, killChan, closed, mu, lastFireTime, hitCount,
                   missedIntervals, failedRuns, lastFailureTime,
                   stopOnFailure, killpc, panicked, clock, sched, wfStarts,
                   streak, emitted, env, regVars>>

\* lines 216-217, 274: the select, entered with t.killChan read at that moment.
\* A ready case is taken; with none ready the goroutine parks.
LoopSelect(i) ==
    /\ ~panicked /\ loops[i].pc = "select"
    /\ \/ /\ killChan \in closed
          /\ loops' = [loops EXCEPT ![i].pc = "k276"]
          /\ UNCHANGED waiters
       \/ \E w \in ParkedWaiters :
            /\ loops' = [loops EXCEPT ![i].pc = Dispatch(w.sr),
                                      ![i].sr = w.sr]
            /\ waiters' = Exit(w)
       \/ /\ killChan \notin closed
          /\ ParkedWaiters = {}
          /\ loops' = [loops EXCEPT ![i].pc = "parked", ![i].kc = killChan]
          /\ UNCHANGED waiters
    /\ UNCHANGED <<state, killChan, closed, mu, lastFireTime, hitCount,
                   missedIntervals, failedRuns, lastFailureTime,
                   stopOnFailure, killpc, panicked, clock, sched, wfStarts,
                   streak, emitted, env, regVars>>

\* A missed count that replaces the counter instead of adding to it.
SetMissed(m) == m

\* line 221: t.missedIntervals += sr.Missed()
AddMissed(m) == missedIntervals + m

\* lines 221-223: the counters of an Active response, written without the lock.
LoopActive(i) ==
    /\ ~panicked /\ loops[i].pc = "active"
    /\ missedIntervals' = AddMissed(loops[i].sr.missed)
    /\ clock' = clock + 1                      \* time.Now()
    /\ lastFireTime' = clock + 1
    /\ hitCount' = hitCount + 1
    /\ loops' = [loops EXCEPT ![i].pc = "fire", ![i].sr = NoResp]
    /\ UNCHANGED <<state, killChan, closed, mu, failedRuns, lastFailureTime,
                   stopOnFailure, waiters, killpc, panicked, sched, wfStarts,
                   streak, emitted, env, regVars>>

\* A fire launched as a goroutine of its own: the loop does not wait for it.
LoopFireAsync(i) ==
    /\ ~panicked /\ loops[i].pc = "fire" /\ mu = "free"
    /\ mu' = "fire"
    /\ state' = "Firing"
    /\ loops' = [loops EXCEPT ![i].pc = "spawn"]
    /\ UNCHANGED <<killChan, closed, lastFireTime, hitCount, missedIntervals,
                   failedRuns, lastFailureTime, stopOnFailure, waiters,
                   killpc, panicked, clock, sched, wfStarts, streak, emitted,
                   env, regVars>>

\* task.fire, lines 284-287: Lock and t.state = core.TaskFiring.
LoopFireLock(i) ==
    /\ ~panicked /\ loops[i].pc = "fire" /\ mu = "free"
    /\ mu' = "fire"
    /\ state' = "Firing"
    /\ loops' = [loops EXCEPT ![i].pc = "firing"]
    /\ UNCHANGED <<killChan, closed, lastFireTime, hitCount, missedIntervals,
                   failedRuns, lastFailureTime, stopOnFailure, waiters,
                   killpc, panicked, clock, sched, wfStarts, streak, emitted,
                   env, regVars>>

\* workflow.Start(t): the collaborator runs the workflow; a failed run is
\* recorded on the task as failedRuns++ and lastFailureTime = lastFireTime.
WorkflowStart(ok) ==
    /\ wfStarts' = wfStarts + 1
    /\ IF ok
       THEN /\ streak' = 0
            /\ UNCHANGED <<failedRuns, lastFailureTime>>
       ELSE /\ streak' = streak + 1
            /\ failedRuns' = failedRuns + 1
            /\ lastFailureTime' = lastFireTime

\* task.fire, lines 288-290: the workflow runs, t.state = core.TaskSpinning
\* and the deferred Unlock.
LoopFireRun(i) ==
    /\ ~panicked /\ loops[i].pc = "firing"
    /\ \E ok \in BOOLEAN : WorkflowStart(ok)
    /\ state' = "Spinning"
    /\ mu' = "free"
    /\ loops' = [loops EXCEPT ![i].pc = "count"]
    /\ UNCHANGED <<killChan, closed, lastFireTime, hitCount, missedIntervals,
                   stopOnFailure, waiters, killpc, panicked, clock, sched,
                   emitted, env, regVars>>

\* A counter that a successful fire does not reset.
CountFailuresNoReset(cf) ==
    IF lastFailureTime = lastFireTime THEN cf + 1 ELSE cf

\* lines 225-237: the consecutive-failure counter after a fire.
CountFailures(cf) ==
    IF lastFailureTime = lastFireTime THEN cf + 1 ELSE 0

\* line 238: the threshold test.
OverThreshold(cf) == cf >= stopOnFailure

\* lines 225-238: count, then either take the disable path or loop.
LoopCount(i) ==
    /\ ~panicked /\ loops[i].pc = "count"
    /\ LET cf == CountFailures(loops[i].cf)
       IN loops' = [loops EXCEPT ![i].cf = cf,
                                 ![i].pc = IF OverThreshold(cf)
                                           THEN "disable" ELSE "spawn"]
    /\ UNCHANGED <<state, killChan, closed, mu, lastFireTime, hitCount,
                   missedIntervals, failedRuns, lastFailureTime,
                   stopOnFailure, waiters, killpc, panicked, clock, sched,
                   wfStarts, streak, emitted, env, regVars>>

\* lines 247-249: t.state = core.TaskDisabled under the lock.
LoopDisable(i) ==
    /\ ~panicked /\ loops[i].pc = "disable" /\ mu = "free"
    /\ state' = "Disabled"
    /\ loops' = [loops EXCEPT ![i].pc = "emit"]
    /\ UNCHANGED <<killChan, closed, mu, lastFireTime, hitCount,
                   missedIntervals, failedRuns, lastFailureTime,
                   stopOnFailure, waiters, killpc, panicked, clock, sched,
                   wfStarts, streak, emitted, env, regVars>>

\* A disable path that publishes nothing.
NoDisabledEvent == <<>>

\* lines 251-254: the TaskDisabledEvent, event.TaskID = t.id.
TaskDisabledEvent == <<ids[1]>>

\* lines 251-255: return; the deferred Emit publishes the event.
LoopEmit(i) ==
    /\ ~panicked /\ loops[i].pc = "emit"
    /\ emitted' = emitted \o TaskDisabledEvent
    /\ loops' = [loops EXCEPT ![i] = DoneLoop("threshold")]
    /\ UNCHANGED <<state, killChan, closed, mu, lastFireTime, hitCount,
                   missedIntervals, failedRuns, lastFailureTime,
                   stopOnFailure, waiters, killpc, panicked, clock, sched,
                   wfStarts, streak, env, regVars>>

\* An Ended branch that sets the state of the Error branch.
EndedAsDisabled == "Disabled"

\* line 261: t.state = core.TaskEnded
EndedState == "Ended"

\* lines 258-263: schedule.Ended.
LoopEnded(i) ==
    /\ ~panicked /\ loops[i].pc = "ended" /\ mu = "free"
    /\ state' = EndedState
    /\ loops' = [loops EXCEPT ![i] = DoneLoop("ended")]
    /\ UNCHANGED <<killChan, closed, mu, lastFireTime, hitCount,
                   missedIntervals, failedRuns, lastFailureTime,
                   stopOnFailure, waiters, killpc, panicked, clock, sched,
                   wfStarts, streak, emitted, env, regVars>>

\* lines 266-271: schedule.Error.
LoopError(i) ==
    /\ ~panicked /\ loops[i].pc = "error" /\ mu = "free"
    /\ state' = "Disabled"
    /\ loops' = [loops EXCEPT ![i] = DoneLoop("error")]
    /\ UNCHANGED <<killChan, closed, mu, lastFireTime, hitCount,
                   missedIntervals, failedRuns, lastFailureTime,
                   stopOnFailure, waiters, killpc, panicked, clock, sched,
                   wfStarts, streak, emitted, env, regVars>>

\* line 276: t.state = core.TaskStopped, written without the lock.
LoopKillState(i) ==
    /\ ~panicked /\ loops[i].pc = "k276"
    /\ state' = "Stopped"
    /\ loops' = [loops EXCEPT ![i].pc = "k277"]
    /\ UNCHANGED <<killChan, closed, mu, lastFireTime, hitCount,
                   missedIntervals, failedRuns, lastFailureTime,
                   stopOnFailure, waiters, killpc, panicked, clock, sched,
                   wfStarts, streak, emitted, env, regVars>>

\* lines 277-278: t.lastFireTime = time.Time{} and return.
LoopKillTime(i) ==
    /\ ~panicked /\ loops[i].pc = "k277"
    /\ lastFireTime' = ZeroTime
    /\ loops' = [loops EXCEPT ![i] = DoneLoop("kill")]
    /\ UNCHANGED <<state, killChan, closed, mu, hitCount, missedIntervals,
                   failedRuns, lastFailureTime, stopOnFailure, waiters,
                   killpc, panicked, clock, sched, wfStarts, streak, emitted,
                   env, regVars>>

\* ------------------------------------------------------------ wait operation
\* line 293-296: entering the select evaluates t.killChan, then calls
\* t.schedule.Wait(t.lastFireTime), which blocks.
WaitStart(w) ==
    /\ ~panicked /\ w.pc = "start"
    /\ waiters' = Move(w, [w EXCEPT !.pc = "wait", !.kc = killChan])
    /\ UNCHANGED <<state, killChan, closed, mu, lastFireTime, hitCount,
                   missedIntervals, failedRuns, lastFailureTime,
                   stopOnFailure, loops, killpc, panicked, clock, sched,
                   wfStarts, streak, emitted, env, regVars>>

\* schedule.Wait returns a response; the schedule hands out env.ticks Active
\* responses at most.
WaitReturn(w, r) ==
    /\ ~panicked /\ w.pc = "wait"
    /\ r.st = "Active" => sched.active < env.ticks
    /\ sched' = IF r.st = "Active"
                THEN [active |-> sched.active + 1,
                      missed |-> sched.missed + r.missed]
                ELSE sched
    /\ waiters' = Move(w, [w EXCEPT !.pc = "select", !.sr = r])
    /\ UNCHANGED <<state, killChan, closed, mu, lastFireTime, hitCount,
                   missedIntervals, failedRuns, lastFailureTime,
                   stopOnFailure, loops, killpc, panicked, clock, wfStarts,
                   streak, emitted, env, regVars>>

\* lines 293-297: the select between the kill channel read at entry and the
\* send on schResponseChan.
WaitSelect(w) ==
    /\ ~panicked /\ w.pc = "select"
    /\ \/ /\ w.kc \in closed
          /\ waiters' = Exit(w)
          /\ UNCHANGED loops
       \/ \E j \in ParkedLoops :
            /\ loops' = [loops EXCEPT ![j].pc = Dispatch(w.sr),
                                      ![j].sr = w.sr,
                                      ![j].kc = NilChan]
            /\ waiters' = Exit(w)
       \/ /\ w.kc \notin closed
          /\ ParkedLoops = {}
          /\ waiters' = Move(w, [w EXCEPT !.pc = "parked"])
          /\ UNCHANGED loops
    /\ UNCHANGED <<state, killChan, closed, mu, lastFireTime, hitCount,
                   missedIntervals, failedRuns, lastFailureTime,
                   stopOnFailure, killpc, panicked, clock, sched, wfStarts,
                   streak, emitted, env, regVars>>

\* ------------------------------------------------------------ registry
\* An id generator that hands out the smallest id absent from the registry.
SmallestFree ==
    CHOOSE k \in DOMAIN table :
        table[k] = 0 /\ \A j \in 1 .. k - 1 : table[j] # 0

\* id(): atomic.AddUint64(&idCounter, 1)
id == idCounter + 1

\* newTask: a further task, never started.
NewTask ==
    /\ Len(ids) < env.tasks
    /\ idCounter' = id
    /\ ids' = Append(ids, id)
    /\ UNCHANGED <<table, rmpc, ret, taskVars>>

Tasks == 1 .. Len(ids)

\* taskCollection.Get: the task stored under an id, 0 for nil.
Get(k) == IF k \in DOMAIN table THEN table[k] ELSE 0

\* A lookup that never finds the id, so that add overwrites.
NeverPresent(r) == FALSE

\* lines 331 and 351: _, ok := t.table[task.id]
Present(r) == table[ids[r]] # 0

\* taskCollection.add, under the registry lock (held by no remove call).
add(r) ==
    /\ rmpc = 0
    /\ IF ~Present(r)
       THEN /\ table' = [table EXCEPT ![ids[r]] = r]
            /\ ret' = "nil"
       ELSE /\ ret' = "AlreadyAdded"
            /\ UNCHANGED table
    /\ UNCHANGED <<idCounter, ids, rmpc, taskVars>>

\* A test that takes only a Spinning task for not stopped.
OnlySpinning(r) == StateOf(r) = "Spinning"

\* line 352: task.state != core.TaskStopped, read without the task's lock.
NotStopped(r) == StateOf(r) # "Stopped"

\* taskCollection.remove, lines 349-358 and 360-366: Lock, the lookup and the
\* test of task.state.
removeCheck(r) ==
    /\ rmpc = 0
    /\ IF table[ids[r]] # 0
       THEN IF NotStopped(r)
            THEN /\ ret' = "NotStopped"
                 /\ UNCHANGED rmpc
            ELSE /\ rmpc' = r
                 /\ UNCHANGED ret
       ELSE /\ ret' = "NotFound"
            /\ UNCHANGED rmpc
    /\ UNCHANGED <<idCounter, ids, table, taskVars>>

\* taskCollection.remove, lines 359 and 367: the delete, return nil.
removeDelete ==
    /\ rmpc # 0
    /\ table' = [table EXCEPT ![ids[rmpc]] = 0]
    /\ ret' = "nil"
    /\ rmpc' = 0
    /\ UNCHANGED <<idCounter, ids, taskVars>>

RegNext ==
    \/ NewTask
    \/ \E r \in Tasks : add(r)
    \/ \E r \in Tasks : removeCheck(r)
    \/ removeDelete

\* ------------------------------------------------------------ specifications
ApiNext ==
    \/ Spin
    \/ Stop
    \/ KillClose
    \/ KillWrite
    \/ KillReturn

LoopNext ==
    \/ \E i \in LoopIds : LoopSpawn(i)
    \/ \E i \in LoopIds : LoopSelect(i)
    \/ \E i \in LoopIds : LoopActive(i)
    \/ \E i \in LoopIds : LoopFireLock(i)
    \/ \E i \in LoopIds : LoopFireRun(i)
    \/ \E i \in LoopIds : LoopCount(i)
    \/ \E i \in LoopIds : LoopDisable(i)
    \/ \E i \in LoopIds : LoopEmit(i)
    \/ \E i \in LoopIds : LoopEnded(i)
    \/ \E i \in LoopIds : LoopError(i)

LoopKilled ==
    \/ \E i \in LoopIds : LoopKillState(i)
    \/ \E i \in LoopIds : LoopKillTime(i)

WaitNext ==
    \/ \E w \in WaiterIds : WaitStart(w)
    \/ \E w \in WaiterIds : \E r \in Responses : WaitReturn(w, r)
    \/ \E w \in WaiterIds : WaitSelect(w)

Goroutines == LoopNext \/ LoopKilled \/ WaitNext

\* The task with every interleaving of Start, Stop and Kill.
Next == ApiNext \/ Goroutines

Spec == Init /\ [][Next]_vars

\* A task that is started and then left alone: no Stop, no Kill.
RunInit ==
    InitWith([starts |-> 1, ticks |-> MaxRunFires, missed |-> 0 .. MaxMissed,
              tasks |-> 1],
             Thresholds \cup {DefaultStopOnFailure})

RunNext == Spin \/ LoopNext \/ WaitNext

RunSpec == RunInit /\ [][RunNext]_vars

\* The registry next to a running task whose schedule has one tick.
RegInit ==
    InitWith([starts |-> MaxRegRuns, ticks |-> 1, missed |-> {0},
              tasks |-> MaxTasks], {1})

RegSpec == RegInit /\ [][Next \/ RegNext]_vars

\* A task left alone by Stop and Kill whose threshold is reconfigured at any
\* moment, before and while it runs.
ThresholdInit ==
    InitWith([starts |-> 1, ticks |-> MaxFires, missed |-> {0}, tasks |-> 1],
             {DefaultStopOnFailure})

ThresholdNext ==
    \/ RunNext
    \/ \E v \in Thresholds \cup {DefaultStopOnFailure} : SetStopOnFailure(v)

ThresholdSpec == ThresholdInit /\ [][ThresholdNext]_vars

\* The id generator and the registry alone: tasks that are never started.
IdInit ==
    InitWith([starts |-> 0, ticks |-> 0, missed |-> {0}, tasks |-> MaxIds],
             {DefaultStopOnFailure})

IdSpec == IdInit /\ [][RegNext]_vars

\* Fairness: the Go scheduler runs every runnable goroutine, and a Kill call
\* that holds the lock runs to its return.  Nothing obliges a caller to call
\* Start, Stop or Kill, nor the schedule to return from Wait.
WaitFair == \E w \in WaiterIds : WaitStart(w) \/ WaitSelect(w)
Fairness ==
    /\ WF_vars(LoopNext \/ LoopKilled)
    /\ WF_vars(WaitFair)
    /\ WF_vars(KillWrite \/ KillReturn)

FairRunSpec == RunSpec /\ Fairness

\* Start and Stop around a schedule with one tick, with fairness.
StopInit ==
    InitWith([starts |-> MaxRuns, ticks |-> 1, missed |-> {0},
              tasks |-> 1], {1})

StopNext == Spin \/ Stop \/ Goroutines

StopSpec == StopInit /\ [][StopNext]_vars /\ Fairness

\* ================================================================ claims

\* C1: Start (Spin) takes effect only when the state is exactly Stopped: the
\* state becomes Spinning, a kill channel never used before is allocated and
\* exactly one spin loop is launched; in any other state it changes nothing,
\* so without an intervening Stop or Kill there is never a second spin loop.
C1_StartOnlyWhenStopped ==
    /\ [][Spin =>
            IF state = "Stopped"
            THEN /\ state' = "Spinning"
                 /\ killChan' \notin (0 .. Len(loops)) \cup closed
                 /\ Len(loops') = Len(loops) + 1
                 /\ loops'[Len(loops')].pc = "spawn"
                 /\ \A j \in LoopIds : loops'[j] = loops[j]
            ELSE UNCHANGED vars]_vars
    /\ [][Len(loops') # Len(loops) => state = "Stopped"]_vars
    /\ [](closed = {} => Len(loops) <= 1)

\* C1 witness: one Start has acted and the loop it launched is running.
C1_Witness ==
    /\ state = "Spinning" /\ killChan = 1 /\ closed = {}
    /\ Len(loops) = 1 /\ loops[1].pc = "parked"

\* C2: if Stop is called while the task is Spinning and its wait operation is
\* still pending on the schedule, the task eventually reaches state Stopped
\* with lastFireTime reset to the zero value.
StopRequested ==
    /\ state = "Spinning"
    /\ killChan \in closed
    /\ loops # <<>>
    /\ loops[Len(loops)].pc \in {"select", "k276"}
    /\ \E w \in WaiterIds : w.run = Len(loops) /\ w.pc \in {"start", "wait"}

C2_StopReachesStopped ==
    StopRequested ~> (state = "Stopped" /\ lastFireTime = ZeroTime)

\* C3: Kill on a Spinning or Firing task closes the kill signal and leaves
\* the state Disabled at the moment Kill returns; in Stopped, Ended or
\* Disabled it changes neither the state nor the kill signal.
C3_KillLeavesDisabled ==
    /\ [](killpc = "ret" => state = "Disabled" /\ killChan \in closed)
    /\ [][KillClose /\ state \notin {"Spinning", "Firing"} =>
            UNCHANGED <<state, killChan, closed>>]_vars

\* C4: Ended and Disabled are terminal: once the state is Ended or Disabled no
\* later step changes it.
C4_TerminalStates ==
    [][(state \in {"Ended", "Disabled"}) => (state' = state)]_vars

C6_EventOnlyOnThreshold ==
    /\ Len(emitted) = Cardinality({i \in LoopIds : loops[i].exit = "threshold"})
    /\ \A k \in 1 .. Len(emitted) : emitted[k] = ids[1]

\* C6 witness: the second run of a task was disabled by the threshold and its
\* one event is out.
C6_Witness ==
    /\ emitted = <<ids[1]>> /\ state = "Disabled"
    /\ Len(loops) = 2 /\ loops[1].exit = "kill" /\ loops[2].exit = "threshold"

\* C7: when the schedule of a started task reports Ended and there is no Stop
\* or Kill, the task eventually reaches state Ended; the spin loop has then
\* returned, and the workflow was fired once per Active response only, so
\* hitCount is not changed by the Ended response.
C7_EndedEndsTask ==
    /\ (\E w \in WaiterIds : w.sr.st = "Ended") ~> (state = "Ended")
    /\ [](state = "Ended" =>
            /\ loops[1].exit = "ended"
            /\ hitCount = sched.active
            /\ wfStarts = sched.active)

\* C7 witness: Ended was the first response; the task is Ended with no hit.
C7_Witness ==
    /\ state = "Ended" /\ hitCount = 0 /\ wfStarts = 0
    /\ loops[1].exit = "ended" /\ waiters = EmptyBag

\* C8: n Active responses with missed counts m_1..m_n, then Ended, every fire
\* succeeding, no Stop or Kill: the workflow was fired exactly n times and the
\* task is Ended with hitCount = n and missedIntervals = m_1 + ... + m_n.
C8_CountersAtEnd ==
    (state = "Ended" /\ failedRuns = 0) =>
        /\ wfStarts = sched.active
        /\ hitCount = sched.active
        /\ missedIntervals = sched.missed

\* C8 witness: three Active responses, two of them with a missed interval.
C8_Witness ==
    /\ state = "Ended" /\ failedRuns = 0
    /\ sched.active = 3 /\ sched.missed = 2 /\ missedIntervals = 2

\* C9: remove fails with NotFound when the id is not in the registry and with
\* NotStopped when it is and the task's state is not Stopped; in both cases
\* the mapping is unchanged, so the task stays retrievable.
C9_RemoveErrors ==
    [][\A r \in Tasks :
        removeCheck(r) =>
            /\ Get(ids[r]) = 0 =>
                    ret' = "NotFound" /\ table' = table /\ rmpc' = 0
            /\ (Get(ids[r]) # 0 /\ StateOf(r) # "Stopped") =>
                    /\ ret' = "NotStopped" /\ table' = table /\ rmpc' = 0
                    /\ table'[ids[r]] = r]_vars

\* C9 witness: a remove of the registered task was refused while it fires.
C9_Witness ==
    /\ ret = "NotStopped" /\ Get(ids[1]) = 1 /\ state = "Firing"

\* C10: add of a task whose id is present returns AlreadyAdded and leaves the
\* mapping as it was; add of an absent id succeeds and makes the task
\* retrievable, leaving the other entries alone.
C10_AddDoesNotOverwrite ==
    [][\A r \in Tasks :
        add(r) =>
            IF Get(ids[r]) # 0
            THEN ret' = "AlreadyAdded" /\ table' = table
            ELSE /\ ret' = "nil"
                 /\ table'[ids[r]] = r
                 /\ \A k \in DOMAIN table : k # ids[r] => table'[k] = table[k]]_vars

\* C10 witness: the second add of task 1 was refused, next to a second task.
C10_Witness ==
    /\ ret = "AlreadyAdded" /\ Get(ids[1]) = 1 /\ Len(ids) = 2 /\ Get(ids[2]) = 2

\* C11: a task is in the registry from its successful add until its successful
\* remove, and under any interleaving of remove with Start, Stop, Kill and
\* the spin loop the task's state is Stopped at the moment its entry is
\* deleted from the mapping.
C11_RemovedOnlyStopped ==
    /\ [][removeDelete => StateOf(rmpc) = "Stopped"]_vars
    /\ [][\A r \in Tasks :
            (table[ids[r]] = r /\ table'[ids[r]] = 0) => removeDelete]_vars

C13_NoResponseAfterClose ==
    /\ [][\A w \in WaiterIds :
            (w.kc \in closed /\ waiters' = Exit(w)) => loops' = loops]_vars
    /\ [][\A i \in LoopIds :
            (i \in closed /\ loops'[i].pc \in {"active", "ended", "error"})
                => loops'[i] = loops[i]]_vars
    /\ [][\A i \in LoopIds :
            (i \in closed /\ loops[i].pc = "select" /\ loops'[i] # loops[i])
                => loops'[i].pc = "k276"]_vars

\* Number of wait operations that run i has launched and that have not
\* returned.
Outstanding(i) ==
    LET ws == {w \in WaiterIds : w.run = i}
        RECURSIVE Sum(_)
        Sum(S) == IF S = {} THEN 0
                  ELSE LET w == CHOOSE x \in S : TRUE
                       IN CopiesIn(w, waiters) + Sum(S \ {w})
    IN Sum(ws)

\* C14: a wait operation launched during one run of the spin loop never
\* delivers its response to the spin loop of a later run, and each run has at
\* most one wait operation outstanding at any time.
C14_FreshChannelsPerRun ==
    /\ [][\A j \in LoopIds :
            (loops[j].pc \in {"select", "parked"}
             /\ loops'[j].pc \in {"active", "ended", "error"})
                => \E w \in WaiterIds :
                        /\ w.run = j /\ w.sr = loops'[j].sr
                        /\ waiters' = Exit(w)]_vars
    /\ [](\A i \in LoopIds : Outstanding(i) <= 1)

\* The wait operations whose schedule.Wait call has returned.
ReturnedWaits == {w \in WaiterIds : w.pc \in {"select", "parked"}}

AllLoopsDone == \A i \in LoopIds : loops[i].pc = "done"

\* C15: no wait operation is leaked: when every spin loop of the task has
\* terminated, each wait operation whose schedule.Wait call has returned
\* terminates eventually (unless a later Start launches a new loop).
C15_NoLeakedWait ==
    (AllLoopsDone /\ ReturnedWaits # {})
        ~> (ReturnedWaits = {} \/ ~AllLoopsDone)

\* The spin loops that are inside workflow.Start.
Firing == {i \in LoopIds : loops[i].pc = "firing"}

\* C16: within one task firings are strictly sequential: at most one fire is
\* in flight at any time, the state is Firing exactly while it is, and a spin
\* loop launches a wait operation only when every fire begun has completed
\* and has set the state back from Firing.
C16_FiringsSequential ==
    /\ [](Cardinality(Firing) <= 1)
    /\ [](state = "Firing" <=> Firing # {})
    /\ [](Firing # {} <=> mu = "fire")
    /\ [][\A i \in LoopIds :
            LoopSpawn(i) =>
                /\ Firing = {} /\ state # "Firing"
                /\ wfStarts = hitCount]_vars

\* C16 witness: the second fire of a run is in flight, the first one complete.
C16_Witness ==
    /\ Firing = {1} /\ state = "Firing"
    /\ hitCount = 2 /\ wfStarts = 1

\* The mutable runtime state of the task.
runtimeState == <<state, lastFireTime, hitCount, missedIntervals>>

\* C17: every write to the task's runtime state (state, lastFireTime, hitCount,
\* missedIntervals) is made by the holder of the task's lock, except the two
\* writes of the spin loop's kill branch: while a Kill call or a fire holds the
\* lock, no other step writes any of these fields.
C17_WritesUnderLock ==
    [][(runtimeState' # runtimeState) =>
            \/ \E i \in LoopIds : LoopKillState(i) \/ LoopKillTime(i)
            \/ mu = "free"
            \/ mu = "Kill" /\ KillWrite
            \/ mu = "fire" /\ \E i \in LoopIds : LoopFireRun(i)]_vars

\* C18: the kill channel of a run is closed at most once: no Stop or Kill call
\* closes a kill channel that is already closed, which would panic.
C18_KillChanClosedOnce == ~panicked

\* C19: the spin loop takes the failure-threshold path only directly after a
\* fire that failed, for every threshold that can be configured, 0 included,
\* and however SetStopOnFailure changes it while the task runs.
C19_DisabledOnlyAfterFailure ==
    \A i \in LoopIds :
        (loops[i].pc \in {"disable", "emit"} \/ loops[i].exit = "threshold")
            => streak > 0

\* The spin loops that have not returned.
AliveLoops == {i \in LoopIds : loops[i].pc # "done"}

\* C20: at every moment at most one spin loop of the task is alive: a Start
\* launches a new loop only after the previous loop has finished its writes
\* and returned.
C20_OneLoopAlive == Cardinality(AliveLoops) <= 1

====
